---- MODULE Spec2Model ----
(***************************************************************************)
(* Model of the suggestion-cycling engine of spellcheck_tab.py: the five   *)
(* process-wide maps keyed by buffer pointer, the speller cache, and the   *)
(* four callbacks the script hooks into the host (input_text_display       *)
(* modifier, complete_next, insert ' ', and the reset keys); and of the    *)
(* language resolver and the personal word list of spellcheck.py.          *)
(*                                                                         *)
(* Text is a sequence of one-character strings.  Python's None and the     *)
(* empty string / empty list are both the empty sequence: the code only    *)
(* ever tests them for truthiness.                                         *)
(***************************************************************************)
EXTENDS Integers, Sequences, FiniteSets, TLC

VARIABLES
    input,                     \* host: input text of every buffer
    input_pos,                 \* host: cursor offset of every buffer
    spellers,                  \* languages with a cached dictionary handle
    last_suggestions,          \* buffer_ptr -> suggestion list
    current_suggestion_index,  \* buffer_ptr -> cycle index
    last_word_position,        \* buffer_ptr -> <<start, length, word>>
    suggestion_active,         \* buffer_ptr -> BOOLEAN
    original_word,             \* buffer_ptr -> word
    backend,                   \* environment: "up", or "down" when dictionary calls raise
    config,                    \* spellcheck.py: the plugin options of the host
    personal,                  \* spellcheck.py: language -> lines of ~/.aspell.<lang>.pws
    aspell_spellers,           \* spellcheck.py: languages with a speller record
    ev                         \* the event processed last and its result

vars == <<input, input_pos, spellers, last_suggestions, current_suggestion_index,
          last_word_position, suggestion_active, original_word,
          backend, config, personal, aspell_spellers, ev>>

\* what the events of spellcheck_tab.py leave alone
other_vars == <<backend, config, personal, aspell_spellers>>

tab_vars == <<input, input_pos, spellers, last_suggestions, current_suggestion_index,
              last_word_position, suggestion_active, original_word>>

----------------------------------------------------------------------------
(* Bounds of the exploration *)

MaxLen == 4         \* longest input line when one buffer is used

MaxLenTwo == 2      \* longest input line when both buffers are used

MaxLenWords == 8    \* longest input line when whole words are pasted

MaxRules == 3       \* longest list of language rules

MaxBatch == 2       \* most words in one /spellcheck_add command

----------------------------------------------------------------------------
(* The environment: buffers, dictionaries, nick lists *)

Buffers == {"A", "B"}

\* with the private buffer that receives pasted words
AllBuffers == Buffers \cup {"C"}

TypedChars == {"a", "b"}

languages == <<"pl_PL", "en_US", "de_DE">>

\* enchant raises DictNotFoundError for a language without dictionary
InstalledLangs == {"pl_PL", "en_US"}

W_aa  == <<"a", "a">>
W_ab  == <<"a", "b">>
W_ba  == <<"b", "a">>
W_bb  == <<"b", "b">>
W_abb == <<"a", "b", "b">>
W_a_b == <<"a", " ", "b">>
W_Ab  == <<"A", "b">>
W_a   == <<"a">>
W_Helo  == <<"H", "e", "l", "o">>
W_Hello == <<"H", "e", "l", "l", "o">>
W_Help  == <<"H", "e", "l", "p">>
W_Held  == <<"H", "e", "l", "d">>
W_path  == <<"/", "a">>
W_mail  == <<"a", "@", "b">>
W_num   == <<"1", "2">>
W_http  == <<"h", "t", "t", "p", ":", "/", "/", "x">>
W_ftp   == <<"f", "t", "p", ":", "/", "/", "x">>

\* words that a dictionary rejects with a suggestion whatever they look like
Unknown == {W_a, W_path, W_mail, W_num, W_http, W_ftp}

\* speller.check(word) of the dictionary of lang
speller_check(lang, word) ==
    IF lang = "pl_PL" THEN word = W_aa
    ELSE IF lang = "en_US"
    THEN word = W_bb \/ word = W_Hello \/ word = W_Help \/ word = W_Held
    ELSE FALSE

\* speller.suggest(word) of the dictionary of lang
speller_suggest(lang, word) ==
    CASE lang = "pl_PL" /\ word = W_ab -> <<W_a_b, W_aa>>
      [] lang = "pl_PL" /\ word = W_ba -> <<W_aa>>
      [] lang = "en_US" /\ word = W_ab -> <<W_aa, W_abb>>
      [] lang = "en_US" /\ word = W_ba -> <<W_bb>>
      [] lang = "en_US" /\ word = W_Helo -> <<W_Hello, W_Help, W_Held>>
      [] lang = "en_US" /\ word \in Unknown -> <<W_aa>>
      [] OTHER                         -> <<>>

\* weechat.buffer_get_string(buffer, "localvar_type")
localvar_type(buffer) ==
    IF buffer = "A" THEN "channel" ELSE IF buffer = "C" THEN "private" ELSE "server"

\* the "nicklist" infolist of a buffer, nicks only
nicklist(buffer) ==
    IF buffer = "A" THEN <<W_Ab>> ELSE IF buffer = "C" THEN <<W_abb>> ELSE <<>>

----------------------------------------------------------------------------
(* Python string and dict primitives *)

Min(a, b) == IF a < b THEN a ELSE b

\* s[:n]
Take(s, n) == SubSeq(s, 1, Min(n, Len(s)))

\* s[n:]
Drop(s, n) == SubSeq(s, n + 1, Len(s))

\* str.lower() on one character
LowerChar(c) ==
    IF c = "A" THEN "a" ELSE IF c = "B" THEN "b" ELSE IF c = "D" THEN "d"
    ELSE IF c = "H" THEN "h" ELSE IF c = "W" THEN "w" ELSE c

Lower(s) == [i \in 1..Len(s) |-> LowerChar(s[i])]

StartsWith(s, p) == Len(p) <= Len(s) /\ SubSeq(s, 1, Len(p)) = p

InSeq(x, s) == \E i \in 1..Len(s) : s[i] = x

\* dct.pop(key, None)
Pop(dct, key) == [k \in DOMAIN dct \ {key} |-> dct[k]]

\* dct[key] = value
Put(dct, key, value) == [k \in DOMAIN dct \cup {key} |-> IF k = key THEN value ELSE dct[k]]

EmptyMap == [k \in {} |-> 0]

IsSpace(c) == c = " "

IsDigit(c) == c \in {"0", "1", "2", "3", "4", "5", "6", "7", "8", "9"}

\* buffer_ptr that gives every buffer the same key
buffer_ptr_shared(buffer) == "A"

\* str(buffer): the key of the state maps
buffer_ptr(buffer) == buffer

----------------------------------------------------------------------------
(* get_speller, get_matching_nicks, check_word *)

MaxSuggestions == 5

\* get_speller(lang): the handle (here: whether there is one) and the cache
get_speller(lang, cache) ==
    IF lang \in cache
    THEN [speller |-> TRUE, spellers |-> cache]
    ELSE IF lang \in InstalledLangs
         THEN [speller |-> TRUE, spellers |-> cache \cup {lang}]
         ELSE [speller |-> FALSE, spellers |-> cache]

\* get_matching_nicks(buffer, word_prefix)
get_matching_nicks(buffer, word_prefix) ==
    LET matches(nick) == StartsWith(Lower(nick), Lower(word_prefix))
    IN  SelectSeq(nicklist(buffer), matches)

\* re.match(r"(^/|https?://|\S+@\S+|\d+)", word)
unchecked_pattern(word) ==
    \/ StartsWith(word, <<"/">>)
    \/ StartsWith(word, <<"h", "t", "t", "p", ":", "/", "/">>)
    \/ StartsWith(word, <<"h", "t", "t", "p", "s", ":", "/", "/">>)
    \/ \E i \in 2..(Len(word) - 1) :
          /\ word[i] = "@"
          /\ \A j \in 1..(i + 1) : ~IsSpace(word[j])
    \/ (Len(word) >= 1 /\ IsDigit(word[1]))

\* the inner loop of check_word: append the unseen suggestions, stop at the cap
RECURSIVE add_suggestions(_, _, _)
add_suggestions(all_suggestions, suggestions, k) ==
    IF k > Len(suggestions)
    THEN all_suggestions
    ELSE LET appended == IF InSeq(suggestions[k], all_suggestions)
                         THEN all_suggestions
                         ELSE Append(all_suggestions, suggestions[k])
         IN  IF Len(appended) >= MaxSuggestions
             THEN appended
             ELSE add_suggestions(appended, suggestions, k + 1)

\* the loop of check_word over languages, from the i-th language on
RECURSIVE check_languages(_, _, _, _, _)
check_languages(i, word, all_suggestions, cache, calls) ==
    IF i > Len(languages)
    THEN [word_is_correct |-> FALSE, all_suggestions |-> all_suggestions,
          spellers |-> cache, calls |-> calls]
    ELSE LET got == get_speller(languages[i], cache)
         IN  IF ~got.speller
             THEN check_languages(i + 1, word, all_suggestions, got.spellers, calls)
             ELSE IF speller_check(languages[i], word)
             THEN [word_is_correct |-> TRUE, all_suggestions |-> all_suggestions,
                   spellers |-> got.spellers, calls |-> calls + 1]
             ELSE LET added == add_suggestions(all_suggestions,
                                               speller_suggest(languages[i], word), 1)
                  IN  IF Len(added) >= MaxSuggestions
                      THEN [word_is_correct |-> FALSE, all_suggestions |-> added,
                            spellers |-> got.spellers, calls |-> calls + 2]
                      ELSE check_languages(i + 1, word, added, got.spellers, calls + 2)

\* check_word returning the word itself where it has nothing to suggest
check_word_never_empty(word, buffer, cache) ==
    IF Len(word) < 2 \/ unchecked_pattern(word)
    THEN [suggestions |-> <<>>, spellers |-> cache, calls |-> 0]
    ELSE LET looped == check_languages(1, word, <<>>, cache, 0)
             matching_nicks == get_matching_nicks(buffer, word)
             all_suggestions ==
                 IF localvar_type(buffer) \in {"channel", "private"}
                 THEN matching_nicks \o looped.all_suggestions
                 ELSE looped.all_suggestions
         IN  IF looped.word_is_correct
             THEN [suggestions |-> <<>>, spellers |-> looped.spellers,
                   calls |-> looped.calls]
             ELSE [suggestions |-> IF all_suggestions = <<>> THEN <<word>>
                                   ELSE Take(all_suggestions, MaxSuggestions),
                   spellers |-> looped.spellers, calls |-> looped.calls]

\* check_word(word, buffer): the suggestions (<<>> is None), the speller cache
\* afterwards and the number of dictionary calls made
check_word(word, buffer, cache) ==
    IF Len(word) < 2 \/ unchecked_pattern(word)
    THEN [suggestions |-> <<>>, spellers |-> cache, calls |-> 0]
    ELSE LET looped == check_languages(1, word, <<>>, cache, 0)
             matching_nicks == get_matching_nicks(buffer, word)
             all_suggestions ==
                 IF localvar_type(buffer) \in {"channel", "private"}
                 THEN matching_nicks \o looped.all_suggestions
                 ELSE looped.all_suggestions
         IN  IF looped.word_is_correct
             THEN [suggestions |-> <<>>, spellers |-> looped.spellers,
                   calls |-> looped.calls]
             ELSE [suggestions |-> Take(all_suggestions, MaxSuggestions),
                   spellers |-> looped.spellers, calls |-> looped.calls]

----------------------------------------------------------------------------
(* find_word_at_cursor *)

IsPunct(c) == c \in {".", ",", "!", "?"}

\* re.sub(r"[.,!?]+$", "", word)
RECURSIVE strip_trailing_punct(_)
strip_trailing_punct(word) ==
    IF Len(word) > 0 /\ IsPunct(word[Len(word)])
    THEN strip_trailing_punct(SubSeq(word, 1, Len(word) - 1))
    ELSE word

\* find_word_at_cursor that looks past the white space before the cursor
find_word_at_cursor_rstrip(text, cursor_pos) ==
    LET cut == Take(text, cursor_pos)
        last == CHOOSE k \in 0..Len(cut) :
                    /\ \A j \in (k + 1)..Len(cut) : IsSpace(cut[j])
                    /\ (k = 0 \/ ~IsSpace(cut[k]))
        left_text == Take(cut, last)
        n == Len(left_text)
        match_start == CHOOSE k \in 0..n :
                          /\ \A j \in (k + 1)..n : ~IsSpace(left_text[j])
                          /\ (k = 0 \/ IsSpace(left_text[k]))
    IN  IF match_start = n
        THEN [word |-> <<>>, start |-> -1, length |-> 0]
        ELSE LET word == strip_trailing_punct(Drop(left_text, match_start))
             IN  [word |-> word, start |-> match_start, length |-> Len(word)]

\* find_word_at_cursor(text, cursor_pos): word <<>> stands for "no match"
find_word_at_cursor(text, cursor_pos) ==
    LET left_text == Take(text, cursor_pos)
        n == Len(left_text)
        \* start of the match of (\S+)$
        match_start == CHOOSE k \in 0..n :
                          /\ \A j \in (k + 1)..n : ~IsSpace(left_text[j])
                          /\ (k = 0 \/ IsSpace(left_text[k]))
    IN  IF match_start = n
        THEN [word |-> <<>>, start |-> -1, length |-> 0]
        ELSE LET word == strip_trailing_punct(Drop(left_text, match_start))
             IN  [word |-> word, start |-> match_start, length |-> Len(word)]

----------------------------------------------------------------------------
(* The callbacks.  S is the program state as a record of the variables.    *)

Cur == [input |-> input, input_pos |-> input_pos, spellers |-> spellers,
        last_suggestions |-> last_suggestions,
        current_suggestion_index |-> current_suggestion_index,
        last_word_position |-> last_word_position,
        suggestion_active |-> suggestion_active,
        original_word |-> original_word]

WEECHAT_RC_OK == "WEECHAT_RC_OK"

WEECHAT_RC_OK_EAT == "WEECHAT_RC_OK_EAT"

\* pop_state that leaves the suggestion list behind
pop_state_keep_suggestions(S, key) ==
    [S EXCEPT !.current_suggestion_index = Pop(@, key),
              !.last_word_position = Pop(@, key),
              !.original_word = Pop(@, key),
              !.suggestion_active = Pop(@, key)]

\* for dct in (the five maps): dct.pop(buffer_ptr, None)
pop_state(S, key) ==
    [S EXCEPT !.last_suggestions = Pop(@, key),
              !.current_suggestion_index = Pop(@, key),
              !.last_word_position = Pop(@, key),
              !.original_word = Pop(@, key),
              !.suggestion_active = Pop(@, key)]

\* weechat.color(name)
color(name) ==
    CASE name = "red"     -> <<"<red>">>
      [] name = "magenta" -> <<"<magenta>">>
      [] OTHER            -> <<"<reset>">>

\* weechat.config_get_plugin("word_color") or "red"
word_color == "red"

\* join that puts nothing between the items
RECURSIVE join_unseparated(_)
join_unseparated(items) ==
    IF Len(items) = 0 THEN <<>>
    ELSE items[1] \o join_unseparated(Tail(items))

\* ", ".join(items)
RECURSIVE join(_)
join(items) ==
    IF Len(items) = 0 THEN <<>>
    ELSE IF Len(items) = 1 THEN items[1]
    ELSE items[1] \o <<",", " ">> \o join(Tail(items))

\* render_cycling that colours the text now at the span, not the original word
render_cycling_current_word(string, wstart, wlength, orig_word, suggestions, idx) ==
    LET highlighted_word == color(word_color)
                               \o Drop(Take(string, wstart + wlength), wstart)
                               \o color("reset")
        visible_suggs == Take(suggestions, 5)
        formatted_suggs ==
            [i \in 1..Len(visible_suggs) |->
                IF i - 1 = idx
                THEN color("magenta") \o visible_suggs[i] \o color("reset")
                ELSE visible_suggs[i]]
        bracket_text == <<" ", "[">> \o join(formatted_suggs) \o <<"]">>
    IN  Take(string, wstart) \o highlighted_word \o bracket_text
            \o Drop(string, wstart + wlength)

\* the decorated copy while cycling: coloured original word, bracketed
\* suggestions with the one at idx highlighted
render_cycling(string, wstart, wlength, orig_word, suggestions, idx) ==
    LET highlighted_word == color(word_color) \o orig_word \o color("reset")
        visible_suggs == Take(suggestions, 5)
        formatted_suggs ==
            [i \in 1..Len(visible_suggs) |->
                IF i - 1 = idx
                THEN color("magenta") \o visible_suggs[i] \o color("reset")
                ELSE visible_suggs[i]]
        bracket_text == <<" ", "[">> \o join(formatted_suggs) \o <<"]">>
    IN  Take(string, wstart) \o highlighted_word \o bracket_text
            \o Drop(string, wstart + wlength)

\* the decorated copy of a word just flagged: coloured word, bracketed suggestions
render_flagged(string, cur_start, cur_length, current_word, suggestions) ==
    LET highlighted_word == color(word_color) \o current_word \o color("reset")
        visible_suggs == Take(suggestions, 5)
        bracket_text == <<" ", "[">> \o join(visible_suggs) \o <<"]">>
    IN  Take(string, cur_start) \o highlighted_word \o bracket_text
            \o Drop(string, cur_start + cur_length)

\* not string.strip()
is_blank(string) == \A i \in 1..Len(string) : IsSpace(string[i])

\* span_moved that looks at the start of the span only
span_moved_start_only(cur_start, cur_length, old_info) ==
    cur_start # old_info[1]

\* cur_start != old_start or cur_length != old_length
span_moved(cur_start, cur_length, old_info) ==
    cur_start # old_info[1] \/ cur_length # old_info[2]

\* flag_word with the index started at the first suggestion
flag_word_index0(S, key, suggestions, cur_start, cur_length, current_word) ==
    [S EXCEPT !.last_suggestions = Put(@, key, suggestions),
              !.last_word_position = Put(@, key, <<cur_start, cur_length, current_word>>),
              !.original_word = Put(@, key, current_word),
              !.current_suggestion_index = Put(@, key, 0),
              !.suggestion_active = Put(@, key, FALSE)]

\* the entries written when a word is flagged
flag_word(S, key, suggestions, cur_start, cur_length, current_word) ==
    [S EXCEPT !.last_suggestions = Put(@, key, suggestions),
              !.last_word_position = Put(@, key, <<cur_start, cur_length, current_word>>),
              !.original_word = Put(@, key, current_word),
              !.current_suggestion_index = Put(@, key, -1),
              !.suggestion_active = Put(@, key, FALSE)]

\* input_modifier_cb with the dictionary check made before the test for cycling
input_modifier_cb_eager_check(buffer, string, S) ==
    LET key == buffer_ptr(buffer)
        found == find_word_at_cursor(string, S.input_pos[buffer])
        S1 == IF /\ key \in DOMAIN S.last_word_position
                 /\ span_moved(found.start, found.length, S.last_word_position[key])
              THEN pop_state(S, key)
              ELSE S
        cycling == /\ key \in DOMAIN S1.suggestion_active
                   /\ S1.suggestion_active[key]
                   /\ key \in DOMAIN S1.original_word
                   /\ key \in DOMAIN S1.last_suggestions
                   /\ key \in DOMAIN S1.last_word_position
    IN  IF is_blank(string) \/ found.word = <<>>
        THEN [st |-> S, out |-> string, calls |-> 0]
        ELSE IF cycling
        THEN [st |-> S1,
              out |-> render_cycling(string, S1.last_word_position[key][1],
                        S1.last_word_position[key][2], S1.original_word[key],
                                     S1.last_suggestions[key],
                                     IF key \in DOMAIN S1.current_suggestion_index
                                     THEN S1.current_suggestion_index[key] ELSE -1),
              calls |-> check_word(found.word, buffer, S1.spellers).calls]
        ELSE LET checked == check_word(found.word, buffer, S1.spellers)
                 S2 == [S1 EXCEPT !.spellers = checked.spellers]
             IN  IF checked.suggestions = <<>>
                 THEN [st |-> pop_state(S2, key), out |-> string,
                       calls |-> checked.calls]
                 ELSE [st |-> flag_word(S2, key, checked.suggestions,
                                        found.start, found.length, found.word),
                       out |-> render_flagged(string, found.start, found.length,
                                              found.word, checked.suggestions),
                       calls |-> checked.calls]

\* input_modifier_cb(data, modifier, buffer, string)
input_modifier_cb(buffer, string, S) ==
    LET key == buffer_ptr(buffer)
        found == find_word_at_cursor(string, S.input_pos[buffer])
        S1 == IF /\ key \in DOMAIN S.last_word_position
                 /\ span_moved(found.start, found.length, S.last_word_position[key])
              THEN pop_state(S, key)
              ELSE S
        cycling == /\ key \in DOMAIN S1.suggestion_active
                   /\ S1.suggestion_active[key]
                   /\ key \in DOMAIN S1.original_word
                   /\ key \in DOMAIN S1.last_suggestions
                   /\ key \in DOMAIN S1.last_word_position
    IN  IF is_blank(string) \/ found.word = <<>>
        THEN [st |-> S, out |-> string, calls |-> 0]
        ELSE IF cycling
        THEN [st |-> S1,
              out |-> render_cycling(string, S1.last_word_position[key][1],
                        S1.last_word_position[key][2], S1.original_word[key],
                                     S1.last_suggestions[key],
                                     IF key \in DOMAIN S1.current_suggestion_index
                                     THEN S1.current_suggestion_index[key] ELSE -1),
              calls |-> 0]
        ELSE LET checked == check_word(found.word, buffer, S1.spellers)
                 S2 == [S1 EXCEPT !.spellers = checked.spellers]
             IN  IF checked.suggestions = <<>>
                 THEN [st |-> pop_state(S2, key), out |-> string,
                       calls |-> checked.calls]
                 ELSE [st |-> flag_word(S2, key, checked.suggestions,
                                        found.start, found.length, found.word),
                       out |-> render_flagged(string, found.start, found.length,
                                              found.word, checked.suggestions),
                       calls |-> checked.calls]

\* the loop of check_word while every check call of the backend raises: the
\* first language that has a dictionary is asked and the error leaves the loop
RECURSIVE check_languages_backend_down(_, _)
check_languages_backend_down(i, cache) ==
    IF i > Len(languages)
    THEN [raised |-> FALSE, spellers |-> cache]
    ELSE LET got == get_speller(languages[i], cache)
         IN  IF ~got.speller
             THEN check_languages_backend_down(i + 1, got.spellers)
             ELSE [raised |-> TRUE, spellers |-> got.spellers]

\* input_modifier_cb while every check call of the backend raises: neither
\* check_word nor input_modifier_cb has a handler for the error, so it leaves
\* the callback at the call of check_word and no string is returned
input_modifier_cb_backend_down(buffer, string, S) ==
    LET key == buffer_ptr(buffer)
        found == find_word_at_cursor(string, S.input_pos[buffer])
        S1 == IF /\ key \in DOMAIN S.last_word_position
                 /\ span_moved(found.start, found.length, S.last_word_position[key])
              THEN pop_state(S, key)
              ELSE S
        normal == input_modifier_cb(buffer, string, S)
        looped == check_languages_backend_down(1, S1.spellers)
    IN  IF normal.calls = 0 \/ ~looped.raised
        THEN [st |-> normal.st, out |-> normal.out, calls |-> normal.calls, raised |-> FALSE]
        ELSE [st |-> [S1 EXCEPT !.spellers = looped.spellers], out |-> <<>>,
              calls |-> 1, raised |-> TRUE]

\* new_idx = (current_idx + 1) % len(suggestions)
next_index(current_idx, n) == (current_idx + 1) % n

\* weechat.buffer_set(buffer, "input", text); the host keeps the cursor inside
buffer_set_input(S, buffer, text) ==
    [S EXCEPT !.input[buffer] = text,
              !.input_pos[buffer] = Min(@, Len(text))]

\* weechat.buffer_set(buffer, "input_pos", pos); the host keeps it inside
buffer_set_input_pos(S, buffer, pos) ==
    [S EXCEPT !.input_pos[buffer] = Min(pos, Len(S.input[buffer]))]

\* input_text[:word_start] + chosen + input_text[word_start + word_length:]
replace_span(input_text, word_start, word_length, chosen) ==
    Take(input_text, word_start) \o chosen \o Drop(input_text, word_start + word_length)

\* the span recorded with the chosen suggestion in the place of the word
advanced_span_chosen_word(word_start, chosen, orig_word) == <<word_start, Len(chosen), chosen>>

\* the span recorded after a replacement
advanced_span(word_start, chosen, orig_word) == <<word_start, Len(chosen), orig_word>>

\* tab_pass_through that eats the key
tab_pass_through_eat(S) == [st |-> S, rc |-> WEECHAT_RC_OK_EAT]

\* the return of tab_key_cb when there is nothing to cycle
tab_pass_through(S) == [st |-> S, rc |-> WEECHAT_RC_OK]

\* tab_key_cb(data, buffer, command)
tab_key_cb(buffer, S) ==
    LET key == buffer_ptr(buffer)
    IN  IF key \notin DOMAIN S.last_suggestions \/ S.last_suggestions[key] = <<>>
        THEN tab_pass_through(S)
        ELSE
        LET suggestions == S.last_suggestions[key]
            current_idx == IF key \in DOMAIN S.current_suggestion_index
                           THEN S.current_suggestion_index[key] ELSE -1
            new_idx == next_index(current_idx, Len(suggestions))
            S1 == [S EXCEPT !.suggestion_active = Put(@, key, TRUE),
                            !.current_suggestion_index = Put(@, key, new_idx)]
            chosen == suggestions[new_idx + 1]
            input_text == S.input[buffer]
        IN  IF key \notin DOMAIN S.last_word_position
            THEN [st |-> S1, rc |-> WEECHAT_RC_OK]
            ELSE
            LET word_start == S.last_word_position[key][1]
                word_length == S.last_word_position[key][2]
                new_input == replace_span(input_text, word_start, word_length, chosen)
                S2 == buffer_set_input(S1, buffer, new_input)
                S3 == buffer_set_input_pos(S2, buffer, word_start + Len(chosen))
            IN  [st |-> [S3 EXCEPT !.last_word_position =
                            Put(@, key, advanced_span(word_start, chosen,
                                                      S.original_word[key]))],
                 rc |-> WEECHAT_RC_OK_EAT]

\* is_active that takes any recorded state for an active one
is_active_any_state(S, key) == key \in DOMAIN S.suggestion_active

\* suggestion_active.get(buffer_ptr, False)
is_active(S, key) ==
    key \in DOMAIN S.suggestion_active /\ S.suggestion_active[key]

\* space_key_cb that inserts the separator at the cursor
space_key_cb_at_cursor(buffer, S) ==
    LET key == buffer_ptr(buffer)
        input_text == S.input[buffer]
        pos == S.input_pos[buffer]
    IN  IF ~is_active(S, key)
        THEN [st |-> S, rc |-> WEECHAT_RC_OK]
        ELSE LET S1 == buffer_set_input(S, buffer,
                           Take(input_text, pos) \o <<" ">> \o Drop(input_text, pos))
                 S2 == buffer_set_input_pos(S1, buffer, pos + 1)
             IN  [st |-> pop_state(S2, key), rc |-> WEECHAT_RC_OK_EAT]

\* space_key_cb with the separator put right after the chosen suggestion
space_key_cb_after_word(buffer, S) ==
    LET key == buffer_ptr(buffer)
        input_text == S.input[buffer]
    IN  IF ~is_active(S, key)
        THEN [st |-> S, rc |-> WEECHAT_RC_OK]
        ELSE LET word_end == IF key \in DOMAIN S.last_word_position
                             THEN S.last_word_position[key][1] + S.last_word_position[key][2]
                             ELSE Len(input_text)
                 S1 == buffer_set_input(S, buffer,
                           Take(input_text, word_end) \o <<" ">> \o Drop(input_text, word_end))
                 S2 == buffer_set_input_pos(S1, buffer, word_end + 1)
             IN  [st |-> pop_state(S2, key), rc |-> WEECHAT_RC_OK_EAT]

\* space_key_cb(data, buffer, command)
space_key_cb(buffer, S) ==
    LET key == buffer_ptr(buffer)
        input_text == S.input[buffer]
    IN  IF ~is_active(S, key)
        THEN [st |-> S, rc |-> WEECHAT_RC_OK]
        ELSE LET S1 == buffer_set_input(S, buffer, input_text \o <<" ">>)
                 S2 == buffer_set_input_pos(S1, buffer, Len(input_text) + 1)
             IN  [st |-> pop_state(S2, key), rc |-> WEECHAT_RC_OK_EAT]

\* other_key_cb that also empties the input line
other_key_cb_clear_line(buffer, S) ==
    LET key == buffer_ptr(buffer)
        S1 == buffer_set_input(S, buffer, <<>>)
    IN  IF ~is_active(S, key)
        THEN [st |-> S1, rc |-> WEECHAT_RC_OK]
        ELSE [st |-> pop_state(S1, key), rc |-> WEECHAT_RC_OK]

\* other_key_cb(data, buffer, command)
other_key_cb(buffer, S) ==
    LET key == buffer_ptr(buffer)
    IN  IF ~is_active(S, key)
        THEN [st |-> S, rc |-> WEECHAT_RC_OK]
        ELSE [st |-> pop_state(S, key), rc |-> WEECHAT_RC_OK]

----------------------------------------------------------------------------
(* The host: the keys the script hooks and what the host does with a key   *)
(* that no callback has eaten.                                             *)

TabCommand == "complete_next"

SpaceCommand == "insert ' '"

\* commands matched by the hooks of other_key_cb
OtherCommands == {"delete_previous_char", "delete_next_char",
                  "move_previous_char", "return"}

\* the reset key used when two buffers are interleaved
OtherCommandsTwo == {"return"}

\* the host's own handling of /input <command> on a buffer
host_default(buffer, command, S) ==
    LET text == S.input[buffer]
        pos == S.input_pos[buffer]
    IN  CASE command = SpaceCommand ->
               [S EXCEPT !.input[buffer] = Take(text, pos) \o <<" ">> \o Drop(text, pos),
                         !.input_pos[buffer] = pos + 1]
          [] command = "delete_previous_char" /\ pos > 0 ->
               [S EXCEPT !.input[buffer] = Take(text, pos - 1) \o Drop(text, pos),
                         !.input_pos[buffer] = pos - 1]
          [] command = "delete_next_char" /\ pos < Len(text) ->
               [S EXCEPT !.input[buffer] = Take(text, pos) \o Drop(text, pos + 1)]
          [] command = "move_previous_char" /\ pos > 0 ->
               [S EXCEPT !.input_pos[buffer] = pos - 1]
          [] command = "return" ->
               [S EXCEPT !.input[buffer] = <<>>, !.input_pos[buffer] = 0]
          [] OTHER -> S

\* a typed character that is bound to no command: inserted at the cursor
host_insert(buffer, c, S) ==
    LET text == S.input[buffer]
        pos == S.input_pos[buffer]
    IN  [S EXCEPT !.input[buffer] = Take(text, pos) \o <<c>> \o Drop(text, pos),
                  !.input_pos[buffer] = pos + 1]

\* text pasted into the input line: inserted at the cursor
host_paste(buffer, pasted, S) ==
    LET text == S.input[buffer]
        pos == S.input_pos[buffer]
    IN  [S EXCEPT !.input[buffer] = Take(text, pos) \o pasted \o Drop(text, pos),
                  !.input_pos[buffer] = pos + Len(pasted)]

\* the words a user pastes
PasteWords == {W_Helo, W_ab, W_ba, W_aa, W_a, W_path, W_mail, W_num, W_http, W_ftp}

----------------------------------------------------------------------------
(* spellcheck.py: the language resolver find_language.  A conversation is   *)
(* a buffer with its localvar_server and localvar_channel.                  *)

N_work   == <<"w", "o", "r", "k">>
N_Work   == <<"W", "o", "r", "k">>
N_home   == <<"h", "o", "m", "e">>
N_other  == <<"o", "t", "h", "e", "r">>
N_dev    == <<"#", "d", "e", "v">>
N_Dev    == <<"#", "D", "e", "v">>
N_random == <<"#", "r", "a", "n", "d", "o", "m">>
N_bang   == <<"!", "A", "B", "A", "B", "A", "d", "e", "v">>
N_bdev   == <<"!", "d", "e", "v">>

T_en_US == <<"e", "n", "_", "U", "S">>
T_pl_PL == <<"p", "l", "_", "P", "L">>
T_de_DE == <<"d", "e", "_", "D", "E">>
T_und   == <<"u", "n", "d">>

\* the buffers spellcheck.py is asked about
Conversations ==
    { [server |-> N_work,  channel |-> N_dev],
      [server |-> N_home,  channel |-> N_dev],
      [server |-> N_other, channel |-> N_random],
      [server |-> N_Work,  channel |-> N_Dev],
      [server |-> N_work,  channel |-> N_bang],
      [server |-> <<>>,    channel |-> <<>>] }

\* s.split(sep) for a one-character separator
RECURSIVE Split(_, _)
Split(s, sep) ==
    IF ~InSeq(sep, s)
    THEN <<s>>
    ELSE LET i == CHOOSE k \in 1..Len(s) :
                      s[k] = sep /\ \A j \in 1..(k - 1) : s[j] # sep
         IN  <<Take(s, i - 1)>> \o Split(Drop(s, i), sep)

\* s.strip()
Strip(s) ==
    IF \A i \in 1..Len(s) : IsSpace(s[i])
    THEN <<>>
    ELSE LET first == CHOOSE k \in 1..Len(s) :
                          ~IsSpace(s[k]) /\ \A j \in 1..(k - 1) : IsSpace(s[j])
             last == CHOOSE k \in 1..Len(s) :
                         ~IsSpace(s[k]) /\ \A j \in (k + 1)..Len(s) : IsSpace(s[j])
         IN  SubSeq(s, first, last)

\* if channel.startswith("!"): channel = "!" + channel[6:]
normalize_channel(channel) ==
    IF StartsWith(channel, <<"!">>) THEN <<"!">> \o Drop(channel, 6) ELSE channel

\* [lang.strip() for lang in lang_settings.split(",") if lang.strip()]
parse_languages(lang_settings) ==
    LET not_blank(x) == Strip(x) # <<>>
        kept == SelectSeq(Split(lang_settings, ","), not_blank)
    IN  [i \in 1..Len(kept) |-> Strip(kept[i])]

\* three_part_match that compares the room only
three_part_match_room_only(net, chan, server, channel) ==
    Lower(chan) = channel

\* chan.lower() == channel and net.lower() == server
three_part_match(net, chan, server, channel) ==
    Lower(chan) = channel /\ Lower(net) = server

\* chan.lower() == channel
two_part_match(chan, channel) == Lower(chan) = channel

\* match_rules that scans the rules from the last to the first
RECURSIVE match_rules_last_wins(_, _, _, _, _)
match_rules_last_wins(lang_list, i, server, channel, default_lang) ==
    IF i > Len(lang_list)
    THEN default_lang
    ELSE LET parts == Split(lang_list[Len(lang_list) - i + 1], "/")
         IN  IF Len(parts) = 3 /\ three_part_match(parts[1], parts[2], server, channel)
             THEN parts[3]
             ELSE IF Len(parts) = 2 /\ two_part_match(parts[1], channel)
             THEN parts[2]
             ELSE match_rules_last_wins(lang_list, i + 1, server, channel, default_lang)

\* the loop of find_language over the rules, from the i-th rule on
RECURSIVE match_rules(_, _, _, _, _)
match_rules(lang_list, i, server, channel, default_lang) ==
    IF i > Len(lang_list)
    THEN default_lang
    ELSE LET parts == Split(lang_list[i], "/")
         IN  IF Len(parts) = 3 /\ three_part_match(parts[1], parts[2], server, channel)
             THEN parts[3]
             ELSE IF Len(parts) = 2 /\ two_part_match(parts[1], channel)
             THEN parts[2]
             ELSE match_rules(lang_list, i + 1, server, channel, default_lang)

\* find_language(buffer) under the plugin options cfg
find_language(buffer, cfg) ==
    LET server == buffer.server
        channel == buffer.channel
        default_lang == cfg.default_language
    IN  IF server = <<>> \/ channel = <<>>
        THEN default_lang
        ELSE match_rules(parse_languages(cfg.languages), 1, Lower(server),
                         Lower(normalize_channel(channel)), default_lang)

\* the rules a user writes into the option languages
Rule3(net, chan, lang) == net \o <<"/">> \o chan \o <<"/">> \o lang

Rule2(chan, lang) == chan \o <<"/">> \o lang

RuleTexts ==
    { Rule3(N_work, N_dev, T_en_US),
      Rule2(N_dev, T_pl_PL),
      T_de_DE,
      Rule3(N_home, N_dev, T_de_DE),
      Rule2(N_bdev, T_de_DE) }

\* the lists of at most n different rules
RuleLists(n) ==
    UNION { { L \in [1..k -> RuleTexts] : \A i, j \in 1..k : L[i] = L[j] => i = j }
            : k \in 0..n }

\* the user separates the rules by a comma, with or without a space after it
Separators == { <<",">>, <<",", " ">> }

RECURSIVE JoinRules(_, _)
JoinRules(L, sep) ==
    IF L = <<>> THEN <<>>
    ELSE IF Len(L) = 1 THEN L[1]
    ELSE L[1] \o sep \o JoinRules(Tail(L), sep)

DefaultLanguages == { T_en_US, T_und }

----------------------------------------------------------------------------
(* spellcheck.py: the personal word lists, aspell_add_word and the command  *)
(* /spellcheck_add.  A personal file ~/.aspell.LANG.pws is the sequence of  *)
(* its lines.                                                                *)

\* the languages aspell has a dictionary for
AspellInstalled == {T_en_US, T_pl_PL}

\* aspell_setup(lang): the handle (here: whether there is one) and the cache
aspell_setup(lang, cache) ==
    IF lang \in cache
    THEN [speller |-> TRUE, spellers |-> cache]
    ELSE IF lang \in AspellInstalled
         THEN [speller |-> TRUE, spellers |-> cache \cup {lang}]
         ELSE [speller |-> FALSE, spellers |-> cache]

\* f"personal_ws-1.1 {lang} 0"
personal_header(lang) ==
    <<"p", "e", "r", "s", "o", "n", "a", "l", "_", "w", "s", "-", "1", ".", "1", " ">>
        \o lang \o <<" ", "0">>

\* [line.strip() for line in lines[1:] if line.strip()]
personal_words(lines) ==
    LET not_blank(x) == Strip(x) # <<>>
        kept == SelectSeq(SubSeq(lines, 2, Len(lines)), not_blank)
    IN  [i \in 1..Len(kept) |-> Strip(kept[i])]

\* the file operations of aspell_add_word that can raise: creating the file,
\* writing its header, reading it, appending to it
FailureModes == {"none", "create", "header", "read", "append"}

\* aspell_add_word without the test for a word that is already there
aspell_add_word_always_append(lang, word, file, fail) ==
    IF ~file.exists /\ fail = "create"
    THEN [file |-> file, success |-> FALSE]
    ELSE IF ~file.exists /\ fail = "header"
    THEN [file |-> [exists |-> TRUE, lines |-> <<>>], success |-> FALSE]
    ELSE LET created == IF file.exists THEN file
                        ELSE [exists |-> TRUE, lines |-> <<personal_header(lang)>>]
         IN  IF fail = "read"
             THEN [file |-> created, success |-> FALSE]
             ELSE IF fail = "append"
             THEN [file |-> created, success |-> FALSE]
             ELSE [file |-> [created EXCEPT !.lines = Append(created.lines, word)],
                   success |-> TRUE]

\* aspell_add_word(lang, word) on the personal file of lang; fail names the
\* file operation that raises, if the call gets to it
aspell_add_word(lang, word, file, fail) ==
    IF ~file.exists /\ fail = "create"
    THEN [file |-> file, success |-> FALSE]
    ELSE IF ~file.exists /\ fail = "header"
    THEN [file |-> [exists |-> TRUE, lines |-> <<>>], success |-> FALSE]
    ELSE LET created == IF file.exists THEN file
                        ELSE [exists |-> TRUE, lines |-> <<personal_header(lang)>>]
         IN  IF fail = "read"
             THEN [file |-> created, success |-> FALSE]
             ELSE IF InSeq(word, personal_words(created.lines))
             THEN [file |-> created, success |-> TRUE]
             ELSE IF fail = "append"
             THEN [file |-> created, success |-> FALSE]
             ELSE [file |-> [created EXCEPT !.lines = Append(created.lines, word)],
                   success |-> TRUE]

\* the loop of spellcheck_add_cb over the words, from the i-th word on
RECURSIVE add_words(_, _, _, _, _, _)
add_words(lang, words, fails, i, file, success) ==
    IF i > Len(words)
    THEN [file |-> file, success |-> success]
    ELSE LET added == aspell_add_word(lang, words[i], file, fails[i])
         IN  add_words(lang, words, fails, i + 1, added.file, Append(success, added.success))

WEECHAT_RC_ERROR == "WEECHAT_RC_ERROR"

\* args.split()
split_words(args) ==
    LET not_empty(x) == x # <<>>
    IN  SelectSeq(Split(args, " "), not_empty)

\* spellcheck_add_cb(data, buffer, args); fails[i] is the failure that the
\* i-th word meets
spellcheck_add_cb(buffer, args, fails, cfg, files, cache) ==
    LET words == split_words(args)
        lang == find_language(buffer, cfg)
        setup == aspell_setup(lang, cache)
    IN  IF args = <<>>
        THEN [rc |-> "WEECHAT_RC_OK", lang |-> <<>>, personal |-> files, spellers |-> cache,
              words |-> <<>>, success |-> <<>>]
        ELSE IF ~setup.speller
        THEN [rc |-> WEECHAT_RC_ERROR, lang |-> lang, personal |-> files,
              spellers |-> setup.spellers, words |-> words, success |-> <<>>]
        ELSE LET added == add_words(lang, words, fails, 1, files[lang], <<>>)
             IN  [rc |-> "WEECHAT_RC_OK", lang |-> lang,
                  personal |-> [files EXCEPT ![lang] = added.file],
                  spellers |-> setup.spellers, words |-> words, success |-> added.success]

\* the words given to /spellcheck_add
AddableWords == {W_ab, W_ba}

\* the argument strings of at most n words, the empty one among them
AddArgs(n) ==
    { JoinRules(ws, <<" ">>) : ws \in UNION { [1..k -> AddableWords] : k \in 0..n } }

\* the failures that the words of one command meet: at most one word fails
Failures(n) ==
    { f \in [1..n -> FailureModes] : \A i, j \in 1..n : (f[i] # "none" /\ f[j] # "none") => i = j }

\* the buffer /spellcheck_add is typed in
AddBuffers == { [server |-> N_other, channel |-> N_random] }

----------------------------------------------------------------------------
(* The state machine *)

Store(S) ==
    /\ input' = S.input
    /\ input_pos' = S.input_pos
    /\ spellers' = S.spellers
    /\ last_suggestions' = S.last_suggestions
    /\ current_suggestion_index' = S.current_suggestion_index
    /\ last_word_position' = S.last_word_position
    /\ suggestion_active' = S.suggestion_active
    /\ original_word' = S.original_word

\* a key event: the callback hooked on the command, then, unless the callback
\* has eaten the key, the host's own handling of the command
key_event(buffer, command, S) ==
    LET r == IF command = TabCommand THEN tab_key_cb(buffer, S)
             ELSE IF command = SpaceCommand THEN space_key_cb(buffer, S)
             ELSE other_key_cb(buffer, S)
    IN  [st |-> IF r.rc = WEECHAT_RC_OK_EAT THEN r.st
                ELSE host_default(buffer, command, r.st),
         rc |-> r.rc]

\* the state of the cycling machine of a buffer
StateOf(S, b) ==
    IF b \notin DOMAIN S.last_suggestions THEN "NONE"
    ELSE IF b \in DOMAIN S.suggestion_active /\ S.suggestion_active[b] THEN "CYCLING"
    ELSE "FLAGGED"

Init ==
    /\ input = [b \in AllBuffers |-> <<>>]
    /\ input_pos = [b \in AllBuffers |-> 0]
    /\ spellers = {}
    /\ last_suggestions = EmptyMap
    /\ current_suggestion_index = EmptyMap
    /\ last_word_position = EmptyMap
    /\ suggestion_active = EmptyMap
    /\ original_word = EmptyMap
    /\ backend = "up"
    /\ config = [languages |-> <<>>, default_language |-> T_en_US]
    /\ personal = [lang \in AspellInstalled |-> [exists |-> FALSE, lines |-> <<>>]]
    /\ aspell_spellers = {}
    /\ ev = [kind |-> "init", buf |-> "A", from |-> "NONE", rc |-> WEECHAT_RC_OK,
             out |-> <<>>, calls |-> 0]

\* the host redraws the input line of b: modifier input_text_display
Redisplay(b) ==
    \E r \in {input_modifier_cb(b, input[b], Cur)} :
        /\ backend = "up"
        /\ Store(r.st)
        /\ UNCHANGED other_vars
        /\ ev' = [kind |-> "redisplay", buf |-> b, from |-> StateOf(Cur, b), rc |-> WEECHAT_RC_OK,
                  out |-> r.out, calls |-> r.calls, raised |-> FALSE]

\* the host redraws the input line of b while the dictionary backend fails
RedisplayBackendDown(b) ==
    \E r \in {input_modifier_cb_backend_down(b, input[b], Cur)} :
        /\ backend = "down"
        /\ Store(r.st)
        /\ UNCHANGED other_vars
        /\ ev' = [kind |-> "redisplay", buf |-> b, from |-> StateOf(Cur, b), rc |-> WEECHAT_RC_OK,
                  out |-> r.out, calls |-> r.calls, raised |-> r.raised]

\* the dictionary backend breaks or recovers
SetBackend(health) ==
    /\ backend # health
    /\ backend' = health
    /\ UNCHANGED <<tab_vars, config, personal, aspell_spellers>>
    /\ ev' = [kind |-> "backend"]

\* /input complete_next on b
TabKey(b, max) ==
    \E r \in {key_event(b, TabCommand, Cur)} :
        /\ Len(r.st.input[b]) <= max
        /\ Store(r.st)
        /\ UNCHANGED other_vars
        /\ ev' = [kind |-> "tab", buf |-> b, from |-> StateOf(Cur, b), rc |-> r.rc, out |-> <<>>, calls |-> 0]

\* /input insert ' ' on b
SpaceKey(b, max) ==
    \E r \in {key_event(b, SpaceCommand, Cur)} :
        /\ Len(r.st.input[b]) <= max
        /\ Store(r.st)
        /\ UNCHANGED other_vars
        /\ ev' = [kind |-> "space", buf |-> b, from |-> StateOf(Cur, b), rc |-> r.rc, out |-> <<>>, calls |-> 0]

\* one of the reset keys on b
OtherKey(b, command) ==
    \E r \in {key_event(b, command, Cur)} :
        /\ Store(r.st)
        /\ UNCHANGED other_vars
        /\ ev' = [kind |-> "other", buf |-> b, from |-> StateOf(Cur, b), rc |-> r.rc, out |-> <<>>, calls |-> 0]

\* the user types a character that runs no command
InsertChar(b, c, max) ==
    \E S \in {host_insert(b, c, Cur)} :
        /\ Len(S.input[b]) <= max
        /\ Store(S)
        /\ UNCHANGED other_vars
        /\ ev' = [kind |-> "insert", buf |-> b, from |-> StateOf(Cur, b), rc |-> WEECHAT_RC_OK,
                  out |-> <<>>, calls |-> 0]

\* the user pastes a word into the empty input line of b
Paste(b, pasted, max) ==
    \E S \in {host_paste(b, pasted, Cur)} :
        /\ input[b] = <<>>
        /\ Len(S.input[b]) <= max
        /\ Store(S)
        /\ UNCHANGED other_vars
        /\ ev' = [kind |-> "paste", buf |-> b, from |-> StateOf(Cur, b), rc |-> WEECHAT_RC_OK,
                  out |-> <<>>, calls |-> 0]

\* /set plugins.var.python.spellcheck.languages
SetLanguages(L, sep) ==
    /\ config' = [config EXCEPT !.languages = JoinRules(L, sep)]
    /\ UNCHANGED <<tab_vars, backend, personal, aspell_spellers>>
    /\ ev' = [kind |-> "set_languages"]

\* /set plugins.var.python.spellcheck.default_language
SetDefaultLanguage(lang) ==
    /\ config' = [config EXCEPT !.default_language = lang]
    /\ UNCHANGED <<tab_vars, backend, personal, aspell_spellers>>
    /\ ev' = [kind |-> "set_default_language"]

\* a caller asks for the language of a buffer
FindLanguage(buffer) ==
    /\ UNCHANGED <<tab_vars, other_vars>>
    /\ ev' = [kind |-> "find_language", buffer |-> buffer, result |-> find_language(buffer, config)]

\* /spellcheck_add args in a buffer
AddWords(buffer, args, fails) ==
    /\ Len(fails) = Len(split_words(args))
    /\ \E r \in {spellcheck_add_cb(buffer, args, fails, config, personal, aspell_spellers)} :
        /\ personal' = r.personal
        /\ aspell_spellers' = r.spellers
        /\ UNCHANGED <<tab_vars, backend, config>>
        /\ ev' = [kind |-> "add", buffer |-> buffer, lang |-> r.lang, rc |-> r.rc,
                  words |-> r.words, fails |-> fails, success |-> r.success]

\* the events of one buffer
Next ==
    \/ Redisplay("A")
    \/ TabKey("A", MaxLen)
    \/ SpaceKey("A", MaxLen)
    \/ \E command \in OtherCommands : OtherKey("A", command)
    \/ \E c \in TypedChars : InsertChar("A", c, MaxLen)

Spec == Init /\ [][Next]_vars

\* the events of both buffers, interleaved
NextTwo ==
    \/ \E b \in Buffers : Redisplay(b)
    \/ \E b \in Buffers : TabKey(b, MaxLenTwo)
    \/ \E b \in Buffers : SpaceKey(b, MaxLenTwo)
    \/ \E b \in Buffers : \E command \in OtherCommandsTwo : OtherKey(b, command)
    \/ \E b \in Buffers : \E c \in TypedChars : InsertChar(b, c, MaxLenTwo)

SpecTwo == Init /\ [][NextTwo]_vars

\* the events of the private buffer whose lines start as a pasted word
NextWords ==
    \/ Redisplay("C")
    \/ TabKey("C", MaxLenWords)
    \/ SpaceKey("C", MaxLenWords)
    \/ \E command \in OtherCommandsTwo : OtherKey("C", command)
    \/ \E pasted \in PasteWords : Paste("C", pasted, MaxLenWords)

SpecWords == Init /\ [][NextWords]_vars

\* the events of the private buffer with a dictionary backend that can fail
NextBackend ==
    \/ Redisplay("C")
    \/ RedisplayBackendDown("C")
    \/ TabKey("C", MaxLenWords)
    \/ SpaceKey("C", MaxLenWords)
    \/ \E command \in OtherCommandsTwo : OtherKey("C", command)
    \/ \E pasted \in PasteWords : Paste("C", pasted, MaxLenWords)
    \/ \E health \in {"up", "down"} : SetBackend(health)

SpecBackend == Init /\ [][NextBackend]_vars

\* the language rules are edited and buffers are resolved against them
NextResolver ==
    \/ \E L \in RuleLists(MaxRules) : \E sep \in Separators : SetLanguages(L, sep)
    \/ \E lang \in DefaultLanguages : SetDefaultLanguage(lang)
    \/ \E buffer \in Conversations : FindLanguage(buffer)

SpecResolver == Init /\ [][NextResolver]_vars

\* words are added to the personal word lists
NextAdd ==
    \/ \E lang \in DefaultLanguages : SetDefaultLanguage(lang)
    \/ \E buffer \in AddBuffers : \E args \in AddArgs(MaxBatch) :
           \E fails \in UNION { Failures(n) : n \in 0..MaxBatch } : AddWords(buffer, args, fails)

SpecAdd == Init /\ [][NextAdd]_vars

----------------------------------------------------------------------------
(* Properties *)

\* the active flag of the buffer is set
Active(b) == b \in DOMAIN suggestion_active /\ suggestion_active[b]

\* the buffer has an entry in the state maps
HasState(b) == b \in DOMAIN last_suggestions

\* the slice input[start : start + length] of the recorded span
SpanText(b) ==
    LET span == last_word_position[b]
    IN  Drop(Take(input[b], span[1] + span[2]), span[1])

\* C1: for every buffer, an active flag implies a cycle index inside the
\* suggestion list, and recorded state that is not active has index -1
C1_IndexInRange ==
    \A b \in Buffers :
        LET key == b
        IN  /\ Active(b) =>
                 /\ key \in DOMAIN current_suggestion_index
                 /\ key \in DOMAIN last_suggestions
                 /\ current_suggestion_index[key] >= 0
                 /\ current_suggestion_index[key] < Len(last_suggestions[key])
            /\ (HasState(b) /\ ~Active(b)) =>
                 /\ key \in DOMAIN current_suggestion_index
                 /\ current_suggestion_index[key] = -1

\* C1 witness: an advance has wrapped a cycling buffer back to index 0 while
\* the other buffer is flagged with index -1
C1_Witness ==
    /\ ev.kind = "tab" /\ ev.from = "CYCLING" /\ ev.rc = WEECHAT_RC_OK_EAT
    /\ Len(last_suggestions[ev.buf]) >= 2
    /\ current_suggestion_index[ev.buf] = 0
    /\ \E a \in Buffers \ {ev.buf} : HasState(a) /\ ~Active(a)

\* C2: whenever a buffer has recorded state, the text at the recorded span is
\* the original flagged word (before the first advance) or the currently
\* chosen suggestion (after an advance), so that an advance replaces nothing
\* else.  Stated for the states in which the redisplay of the buffer has just
\* run, that is after the span has been validated against the text.
C2_SpanHoldsWord ==
    \A b \in Buffers :
        (HasState(b) /\ ev.kind = "redisplay" /\ ev.buf = b) =>
            LET key == b
            IN  IF Active(b)
                THEN SpanText(b) = last_suggestions[key][current_suggestion_index[key] + 1]
                ELSE SpanText(b) = last_word_position[key][3]

\* the five state maps
Maps == <<last_suggestions, current_suggestion_index, last_word_position,
          suggestion_active, original_word>>

\* no map has an entry for the buffer
NoState(b) ==
    /\ b \notin DOMAIN last_suggestions
    /\ b \notin DOMAIN current_suggestion_index
    /\ b \notin DOMAIN last_word_position
    /\ b \notin DOMAIN suggestion_active
    /\ b \notin DOMAIN original_word

\* this step is an advance on b that ate the key
AdvanceStep(b) == ev'.kind = "tab" /\ ev'.buf = b /\ ev'.rc = WEECHAT_RC_OK_EAT

\* the previous event was an advance on b that ate the key
AfterAdvance(b) == ev.kind = "tab" /\ ev.buf = b /\ ev.rc = WEECHAT_RC_OK_EAT

\* C3: an advance keeps the start offset and the original word of the span,
\* sets its length to the length of the inserted suggestion and leaves the
\* cursor just past the inserted text; an advance that follows an advance
\* immediately replaces exactly the suggestion inserted before and leaves
\* the text before and after it unchanged
C3_AdvanceKeepsSpan ==
    [][\A b \in Buffers :
        AdvanceStep(b) =>
            LET key == b
                old == last_word_position[key]
                new == last_word_position'[key]
                chosen == last_suggestions'[key][current_suggestion_index'[key] + 1]
                previous == last_suggestions[key][current_suggestion_index[key] + 1]
            IN  /\ new = <<old[1], Len(chosen), old[3]>>
                /\ original_word'[key] = original_word[key]
                /\ input_pos'[b] = Len(Take(input[b], old[1])) + Len(chosen)
                /\ AfterAdvance(b) =>
                     /\ SpanText(b) = previous
                     /\ input'[b] = Take(input[b], old[1]) \o chosen
                                       \o Drop(input[b], old[1] + Len(previous))
      ]_vars

\* C4: every advance sets the index to (index + 1) mod N, the initial -1 going
\* to 0, and a redisplay between two advances leaves the buffer cycling on
\* the same suggestion, so that N advances lead back to the first suggestion
C4_CyclingIsCyclic ==
    [][\A b \in Buffers :
        LET key == b
        IN  /\ AdvanceStep(b) =>
                 LET n == Len(last_suggestions[key])
                 IN  /\ last_suggestions'[key] = last_suggestions[key]
                     /\ Active(b)'
                     /\ current_suggestion_index'[key] =
                           IF current_suggestion_index[key] = n - 1 THEN 0
                           ELSE current_suggestion_index[key] + 1
            /\ (AfterAdvance(b) /\ ev'.kind = "redisplay" /\ ev'.buf = b) =>
                 /\ Active(b)'
                 /\ last_suggestions'[key] = last_suggestions[key]
                 /\ current_suggestion_index'[key] = current_suggestion_index[key]
      ]_vars

\* C5: a commit on an active buffer removes all state of the buffer, appends
\* the separator to the input text and eats the key; the redisplay that
\* follows runs a fresh dictionary check
C5_CommitThenFreshCheck ==
    (ev.kind = "space" /\ ev.from = "CYCLING") =>
        /\ NoState(ev.buf)
        /\ ev.rc = WEECHAT_RC_OK_EAT
        /\ Len(input[ev.buf]) > 0 /\ input[ev.buf][Len(input[ev.buf])] = " "
        /\ input_modifier_cb(ev.buf, input[ev.buf], Cur).calls > 0

\* C5 as amended: a commit on an active buffer removes all state of the
\* buffer, appends the separator to the input text, leaves the cursor after
\* it and eats the key; the redisplay that follows renders nothing from the
\* old suggestions: it finds no word at the cursor, makes no dictionary call,
\* returns the text as it is and leaves the buffer without state
C5_CommitResets ==
    /\ [][\A b \in Buffers :
            (ev'.kind = "space" /\ ev'.buf = b /\ Active(b)) =>
                /\ ev'.rc = WEECHAT_RC_OK_EAT
                /\ input'[b] = input[b] \o <<" ">>
                /\ input_pos'[b] = Len(input[b]) + 1
         ]_vars
    /\ [](\A b \in Buffers :
            (ev.kind = "space" /\ ev.buf = b /\ ev.from = "CYCLING") =>
                LET r == input_modifier_cb(b, input[b], Cur)
                IN  /\ NoState(b)
                    /\ r.calls = 0
                    /\ r.out = input[b]
                    /\ r.st = Cur)

\* C5 witness: a commit has just ended a cycle
C5_Witness ==
    /\ ev.kind = "space" /\ ev.from = "CYCLING" /\ ev.rc = WEECHAT_RC_OK_EAT
    /\ NoState(ev.buf)
    /\ input[ev.buf] = W_aa \o <<" ">>

\* C6: a reset key on an active buffer removes all state of the buffer, the
\* callback changes neither the input text nor the cursor, and the key is
\* not eaten
C6_OtherKeyDiscards ==
    [][\A b \in Buffers :
        (ev'.kind = "other" /\ ev'.buf = b /\ Active(b)) =>
            LET r == other_key_cb(b, Cur)
            IN  /\ NoState(b)'
                /\ ev'.rc = WEECHAT_RC_OK
                /\ r.rc = WEECHAT_RC_OK
                /\ r.st.input = input
                /\ r.st.input_pos = input_pos
                /\ r.st = pop_state(Cur, b)
      ]_vars

\* C6 witness: a reset key has just ended a cycle and was passed to the host
C6_Witness ==
    /\ ev.kind = "other" /\ ev.from = "CYCLING" /\ ev.rc = WEECHAT_RC_OK
    /\ NoState(ev.buf)

\* C7: commit and reset keys on a buffer that is not active (no state, or
\* flagged) are no-ops of the callback: state maps, input text and cursor stay
\* as they are and the key is not eaten
C7_InactiveKeysNoOp ==
    [][\A b \in Buffers :
        (ev'.kind \in {"space", "other"} /\ ev'.buf = b
            /\ ~Active(b)) =>
            /\ ev'.rc = WEECHAT_RC_OK
            /\ Maps' = Maps
            /\ space_key_cb(b, Cur) = [st |-> Cur, rc |-> WEECHAT_RC_OK]
            /\ other_key_cb(b, Cur) = [st |-> Cur, rc |-> WEECHAT_RC_OK]
      ]_vars

\* C7 witness: a commit on a flagged buffer was passed to the host and the
\* buffer is still flagged
C7_Witness ==
    /\ ev.kind = "space" /\ ev.from = "FLAGGED" /\ ev.rc = WEECHAT_RC_OK
    /\ StateOf(Cur, ev.buf) = "FLAGGED"

\* C8: an advance on a buffer without state is a no-op: no state is created,
\* input text and cursor stay as they are and the key is not eaten; an
\* advance on a buffer with state eats the key
C8_AdvanceWithoutState ==
    [][\A b \in Buffers :
        (ev'.kind = "tab" /\ ev'.buf = b) =>
            IF HasState(b)
            THEN ev'.rc = WEECHAT_RC_OK_EAT
            ELSE /\ ev'.rc = WEECHAT_RC_OK
                 /\ tab_key_cb(b, Cur).st = Cur
                 /\ Maps' = Maps
                 /\ NoState(b)'
                 /\ input' = input
                 /\ input_pos' = input_pos
      ]_vars

\* C8 witness: an advance on a buffer without state, with text in the input
\* line, was passed to the host
C8_Witness ==
    /\ ev.kind = "tab" /\ ev.from = "NONE" /\ ev.rc = WEECHAT_RC_OK
    /\ NoState(ev.buf)
    /\ Len(input[ev.buf]) >= 2

\* C9: a redisplay that follows a redisplay of the same buffer, text and
\* cursor gives the same display output, leaves the state as it is and makes
\* no dictionary call, whatever the state of the buffer is
C9_RedisplayTwiceNoCheck ==
    ev.kind = "redisplay" =>
        LET r == input_modifier_cb(ev.buf, input[ev.buf], Cur)
        IN  /\ r.out = ev.out
            /\ r.st = Cur
            /\ r.calls = 0

\* C9 as amended: a redisplay that follows a redisplay of the same buffer,
\* text and cursor gives the same display output and leaves the state as it
\* is, whatever the state of the buffer is; it makes no dictionary call when
\* the buffer is cycling, and otherwise repeats the calls of the first one
C9_RedisplayIdempotent ==
    ev.kind = "redisplay" =>
        LET r == input_modifier_cb(ev.buf, input[ev.buf], Cur)
        IN  /\ r.out = ev.out
            /\ r.st = Cur
            /\ r.calls = ev.calls
            /\ StateOf(Cur, ev.buf) = "CYCLING" => r.calls = 0

\* C9 witness: a redisplay has run on a cycling buffer and has left it
\* cycling, and rendered the suggestions
C9_Witness ==
    /\ ev.kind = "redisplay" /\ ev.from = "CYCLING"
    /\ StateOf(Cur, ev.buf) = "CYCLING"
    /\ ev.out # input[ev.buf]

\* what belongs to buffer x: its input line and its entries in the state maps
BufPart(S, x) ==
    LET key == x
        Entry(dct) == IF key \in DOMAIN dct THEN <<dct[key]>> ELSE <<>>
    IN  [input |-> S.input[x], input_pos |-> S.input_pos[x],
         suggestions |-> Entry(S.last_suggestions),
         index |-> Entry(S.current_suggestion_index),
         span |-> Entry(S.last_word_position),
         word |-> Entry(S.original_word),
         active |-> Entry(S.suggestion_active)]

\* the state with everything that belongs to buffer x removed
Scrub(S, x) ==
    [pop_state(S, x) EXCEPT !.input[x] = <<>>, !.input_pos[x] = 0]

\* the state after an event on buffer b in state S and what the host is given
\* back: the display text and the dictionary calls, or the return code
EventResult(b, kind, S) ==
    IF kind = "redisplay"
    THEN LET r == input_modifier_cb(b, S.input[b], S)
         IN  [st |-> r.st, back |-> <<r.out, r.calls>>]
    ELSE LET r == key_event(b, kind, S)
         IN  [st |-> r.st, back |-> <<r.rc>>]

\* C10: in every reachable state of two interleaved buffers, an event of one
\* buffer leaves the input line and the suggestion state of the other buffer
\* as they are, and what it does to its own buffer and gives back to the host
\* is the same as if the other buffer held nothing
C10_BuffersIndependent ==
    \A b \in Buffers : \A a \in Buffers \ {b} :
        \A kind \in {"redisplay", TabCommand, SpaceCommand, "return"} :
            LET r == EventResult(b, kind, Cur)
                alone == EventResult(b, kind, Scrub(Cur, a))
            IN  /\ BufPart(r.st, a) = BufPart(Cur, a)
                /\ BufPart(r.st, b) = BufPart(alone.st, b)
                /\ r.back = alone.back

\* C10 witness: an advance on B while both buffers are cycling
C10_Witness ==
    /\ ev.kind = "tab" /\ ev.buf = "B" /\ ev.rc = WEECHAT_RC_OK_EAT
    /\ StateOf(Cur, "A") = "CYCLING"
    /\ StateOf(Cur, "B") = "CYCLING"

\* the display of the flagged word Helo with its three suggestions
HeloFlagged ==
    <<"<red>">> \o W_Helo \o <<"<reset>">> \o <<" ", "[">> \o W_Hello
        \o <<",", " ">> \o W_Help \o <<",", " ">> \o W_Held \o <<"]">>

\* buffer b holds the flagged word Helo with its suggestions, not yet cycling
HeloFlaggedState(b) ==
    /\ b \in DOMAIN last_suggestions /\ last_suggestions[b] = <<W_Hello, W_Help, W_Held>>
    /\ b \in DOMAIN last_word_position /\ last_word_position[b] = <<0, 4, W_Helo>>
    /\ b \in DOMAIN original_word /\ original_word[b] = W_Helo
    /\ b \in DOMAIN current_suggestion_index /\ current_suggestion_index[b] = -1
    /\ b \in DOMAIN suggestion_active /\ suggestion_active[b] = FALSE

\* C11: a redisplay from state NONE of the input "Helo " with the cursor
\* after the separator returns the flagged display of Helo with its
\* suggestions and leaves the buffer FLAGGED with that word and suggestions
C11_SeparatorThenFlagged ==
    (/\ ev.kind = "redisplay" /\ ev.from = "NONE"
     /\ input[ev.buf] = W_Helo \o <<" ">> /\ input_pos[ev.buf] = 5) =>
        /\ ev.out = HeloFlagged \o <<" ">>
        /\ HeloFlaggedState(ev.buf)

\* C11 as amended: a redisplay from state NONE of the input "Helo" with the
\* cursor right after the word returns the flagged display of Helo with its
\* suggestions and leaves the buffer FLAGGED with that word and suggestions;
\* once the separator follows the word and the cursor is after the separator,
\* the redisplay from NONE finds no word, returns the text as it is and
\* leaves the buffer without state
C11_ScenarioA ==
    /\ (/\ ev.kind = "redisplay" /\ ev.from = "NONE"
        /\ input[ev.buf] = W_Helo /\ input_pos[ev.buf] = 4) =>
           /\ ev.out = HeloFlagged
           /\ HeloFlaggedState(ev.buf)
    /\ (/\ ev.kind = "redisplay" /\ ev.from = "NONE"
        /\ input[ev.buf] = W_Helo \o <<" ">> /\ input_pos[ev.buf] = 5) =>
           /\ ev.out = input[ev.buf]
           /\ ev.calls = 0
           /\ NoState(ev.buf)

\* C11 witness: the redisplay of "Helo " from NONE has run
C11_Witness ==
    /\ ev.kind = "redisplay" /\ ev.from = "NONE"
    /\ input[ev.buf] = W_Helo \o <<" ">> /\ input_pos[ev.buf] = 5
    /\ ev.out = W_Helo \o <<" ">>

\* a display text without its colour codes
Plain(out) ==
    LET is_text(c) == c \notin {"<red>", "<magenta>", "<reset>"}
    IN  SelectSeq(out, is_text)

\* the bracketed suggestions of Helo with the one at idx highlighted
HeloBracket(idx) ==
    LET shown(i, s) == IF i = idx THEN <<"<magenta>">> \o s \o <<"<reset>">> ELSE s
    IN  <<" ", "[">> \o shown(0, W_Hello) \o <<",", " ">> \o shown(1, W_Help)
            \o <<",", " ">> \o shown(2, W_Held) \o <<"]">>

\* buffer b cycles through the suggestions of Helo and has inserted the one at idx
HeloCycling(b, idx) ==
    /\ b \in DOMAIN suggestion_active /\ suggestion_active[b]
    /\ b \in DOMAIN last_suggestions /\ last_suggestions[b] = <<W_Hello, W_Help, W_Held>>
    /\ b \in DOMAIN current_suggestion_index /\ current_suggestion_index[b] = idx
    /\ b \in DOMAIN original_word /\ original_word[b] = W_Helo
    /\ b \in DOMAIN last_word_position
    /\ last_word_position[b] = <<0, Len(last_suggestions[b][idx + 1]), W_Helo>>
    /\ input[b] = last_suggestions[b][idx + 1]
    /\ input_pos[b] = Len(input[b])

\* C12: after the advance from the flagged word Helo the redisplay shows the
\* replaced word followed by the suggestions with suggestion 0 highlighted,
\* "Hello [Hello, Help, Held]", and after the second advance the word Help
\* with suggestion 1 highlighted
C12_ShowsReplacedWord ==
    \A idx \in 0..1 :
        (ev.kind = "redisplay" /\ ev.from = "CYCLING" /\ HeloCycling(ev.buf, idx)) =>
            /\ Plain(ev.out) = input[ev.buf] \o Plain(HeloBracket(idx))
            /\ \E word \in {<<"<red>">> \o input[ev.buf] \o <<"<reset>">>, input[ev.buf]} :
                  ev.out = word \o HeloBracket(idx)

\* C12 as amended: the advance from the flagged word Helo replaces the input
\* by Hello, puts the cursor after it, selects index 0 and eats the key, and
\* the next advance replaces Hello by Help and selects index 1; the redisplay
\* after each of them leaves input and state as they are and shows the
\* original word Helo in the flag colour, not the inserted suggestion,
\* followed by the bracketed suggestions with the selected one highlighted
C12_ScenarioB ==
    /\ [][\A b \in AllBuffers :
            /\ (ev'.kind = "tab" /\ ev'.buf = b /\ HeloFlaggedState(b) /\ input[b] = W_Helo) =>
                  /\ HeloCycling(b, 0)' /\ input'[b] = W_Hello
                  /\ ev'.rc = WEECHAT_RC_OK_EAT
            /\ (ev'.kind = "tab" /\ ev'.buf = b /\ HeloCycling(b, 0)) =>
                  /\ HeloCycling(b, 1)' /\ input'[b] = W_Help
                  /\ ev'.rc = WEECHAT_RC_OK_EAT
            /\ \A idx \in 0..1 :
                  (ev'.kind = "redisplay" /\ ev'.buf = b /\ HeloCycling(b, idx)) =>
                      HeloCycling(b, idx)'
         ]_vars
    /\ [](\A idx \in 0..1 :
            (ev.kind = "redisplay" /\ ev.from = "CYCLING" /\ HeloCycling(ev.buf, idx)) =>
                ev.out = <<"<red>">> \o W_Helo \o <<"<reset>">> \o HeloBracket(idx))

\* C12 witness: the redisplay after the second advance has shown Help selected
C12_Witness ==
    /\ ev.kind = "redisplay" /\ ev.from = "CYCLING"
    /\ HeloCycling(ev.buf, 1)
    /\ input[ev.buf] = W_Help
    /\ Plain(ev.out) = W_Helo \o Plain(HeloBracket(1))

\* C13: the redisplay handler and the commit and reset callbacks never write
\* the input text or the cursor of any buffer, in any state: the advance is
\* the only event of the script that rewrites the logical input text
C13_OnlyAdvanceRewrites ==
    \A b \in Buffers :
        /\ input_modifier_cb(b, input[b], Cur).st.input = input
        /\ input_modifier_cb(b, input[b], Cur).st.input_pos = input_pos
        /\ space_key_cb(b, Cur).st.input = input
        /\ other_key_cb(b, Cur).st.input = input

\* C13 as amended: the redisplay handler never writes the input text or the
\* cursor of any buffer, in any state, and returns a display text of its own;
\* the reset callback never writes them either; the script rewrites the
\* logical input text in the advance on a buffer with state, and also in the
\* commit on an active buffer, which appends the separator itself
C13_RedisplayKeepsInput ==
    /\ [][ev'.kind = "redisplay" => (input' = input /\ input_pos' = input_pos)]_vars
    /\ [](\A b \in Buffers :
            LET shown == input_modifier_cb(b, input[b], Cur)
                reset == other_key_cb(b, Cur)
                commit == space_key_cb(b, Cur)
                advance == tab_key_cb(b, Cur)
            IN  /\ shown.st.input = input /\ shown.st.input_pos = input_pos
                /\ reset.st.input = input /\ reset.st.input_pos = input_pos
                /\ ~Active(b) => (commit.st.input = input /\ commit.st.input_pos = input_pos)
                /\ Active(b) =>
                      commit.st.input = [input EXCEPT ![b] = input[b] \o <<" ">>]
                /\ ~HasState(b) => (advance.st.input = input /\ advance.st.input_pos = input_pos))

\* C13 witness: a redisplay has flagged a word and returned a decorated copy
C13_Witness ==
    /\ ev.kind = "redisplay" /\ ev.from = "NONE"
    /\ StateOf(Cur, ev.buf) = "FLAGGED"
    /\ ev.out # input[ev.buf]
    /\ Len(input[ev.buf]) = 3


----------------------------------------------------------------------------
(* The language resolver *)

\* what a rule says: the network it names ("*" when it names none), the room
\* it names ("-" for a bare tag, which names no room) and its language
RuleMeaning(text) ==
    CASE text = Rule3(N_work, N_dev, T_en_US) -> [network |-> "work", room |-> "#dev", lang |-> T_en_US]
      [] text = Rule2(N_dev, T_pl_PL)         -> [network |-> "*",    room |-> "#dev", lang |-> T_pl_PL]
      [] text = T_de_DE                       -> [network |-> "*",    room |-> "-",    lang |-> T_de_DE]
      [] text = Rule3(N_home, N_dev, T_de_DE) -> [network |-> "home", room |-> "#dev", lang |-> T_de_DE]
      [] text = Rule2(N_bdev, T_de_DE)        -> [network |-> "*",    room |-> "!dev", lang |-> T_de_DE]

\* the case-normalized conversation key of a buffer
KeyOf(buffer) ==
    CASE buffer = [server |-> N_work,  channel |-> N_dev]    -> [network |-> "work",  room |-> "#dev"]
      [] buffer = [server |-> N_home,  channel |-> N_dev]    -> [network |-> "home",  room |-> "#dev"]
      [] buffer = [server |-> N_other, channel |-> N_random] -> [network |-> "other", room |-> "#random"]
      [] buffer = [server |-> N_Work,  channel |-> N_Dev]    -> [network |-> "work",  room |-> "#dev"]
      [] buffer = [server |-> N_work,  channel |-> N_bang]   -> [network |-> "work",  room |-> "!dev"]
      [] buffer = [server |-> <<>>,    channel |-> <<>>]     -> [network |-> "",      room |-> ""]

RuleMatchesKey(text, key) ==
    /\ RuleMeaning(text).room = key.room
    /\ RuleMeaning(text).network \in {"*", key.network}

\* the language of the first rule of L that matches key, else the default
FirstMatch(L, key, default) ==
    IF \E i \in 1..Len(L) : RuleMatchesKey(L[i], key)
    THEN LET i == CHOOSE k \in 1..Len(L) :
                      /\ RuleMatchesKey(L[k], key)
                      /\ \A j \in 1..(k - 1) : ~RuleMatchesKey(L[j], key)
         IN  RuleMeaning(L[i]).lang
    ELSE default

ScenarioD == <<Rule3(N_work, N_dev, T_en_US), Rule2(N_dev, T_pl_PL), T_de_DE>>

\* C14: find_language returns the language of the first rule, in configured
\* order, that matches the conversation (a network/room/tag rule needs both
\* names to match, a room/tag rule the room alone, a bare tag matches
\* nothing) and the default language when no rule matches; under the rules
\* of scenario D it gives en_US for (work,#dev), pl_PL for (home,#dev) and
\* the default for (other,#random)
C14_FirstMatchingRule ==
    ev.kind = "find_language" =>
        /\ \A L \in RuleLists(MaxRules) : \A sep \in Separators :
               JoinRules(L, sep) = config.languages =>
                   ev.result = FirstMatch(L, KeyOf(ev.buffer), config.default_language)
        /\ (\E sep \in Separators : config.languages = JoinRules(ScenarioD, sep)) =>
               /\ ev.buffer = [server |-> N_work, channel |-> N_dev] => ev.result = T_en_US
               /\ ev.buffer = [server |-> N_home, channel |-> N_dev] => ev.result = T_pl_PL
               /\ ev.buffer = [server |-> N_other, channel |-> N_random] =>
                      ev.result = config.default_language

\* the room/tag rule of scenario D answers for (home,#dev), which the
\* network/room/tag rule before it does not match
C14_Witness ==
    /\ ev.kind = "find_language"
    /\ config.languages = JoinRules(ScenarioD, <<",", " ">>)
    /\ ev.buffer = [server |-> N_home, channel |-> N_dev]
    /\ ev.result = T_pl_PL


\* the conversation keys over the names in use
AllKeys ==
    [network : {"work", "home", "other", ""}, room : {"#dev", "#random", "!dev", ""}]

\* two rules overlap when some conversation key is matched by both
Overlap(t1, t2) ==
    \E key \in AllKeys : RuleMatchesKey(t1, key) /\ RuleMatchesKey(t2, key)

Swap(L, i, j) ==
    [k \in 1..Len(L) |-> IF k = i THEN L[j] ELSE IF k = j THEN L[i] ELSE L[k]]

\* the lists and separators that the option languages was written from
ConfiguredAs(L, sep) == JoinRules(L, sep) = config.languages

\* find_language for the buffer of the last call, had the rules been L
ResultUnder(L, sep) ==
    find_language(ev.buffer, [config EXCEPT !.languages = JoinRules(L, sep)])

\* C15 as stated, its swap of non-overlapping rules: exchanging two rules of
\* the list (at any two positions) that cannot both match the same key never
\* changes the result of find_language
C15_SwapNonOverlapping ==
    ev.kind = "find_language" =>
        \A L \in RuleLists(MaxRules) : \A sep \in Separators :
            ConfiguredAs(L, sep) =>
                \A i, j \in 1..Len(L) :
                    (i < j /\ ~Overlap(L[i], L[j])) =>
                        ResultUnder(Swap(L, i, j), sep) = ev.result

\* C15: find_language changes no state; asked again for a buffer with the
\* same conversation key, rules and default unchanged, it answers the same;
\* exchanging two ADJACENT rules that cannot both match the same key never
\* changes the result; exchanging two rules that both match the key of the
\* buffer, carry different languages and are preceded by no matching rule
\* changes the result from the language of the one to that of the other
C15_Resolver ==
    /\ [][ev'.kind = "find_language" => UNCHANGED <<tab_vars, other_vars>>]_vars
    /\ [][(/\ ev.kind = "find_language"
           /\ ev'.kind = "find_language"
           /\ KeyOf(ev'.buffer) = KeyOf(ev.buffer)) => ev'.result = ev.result]_vars
    /\ [](ev.kind = "find_language" =>
            \A L \in RuleLists(MaxRules) : \A sep \in Separators :
                ConfiguredAs(L, sep) =>
                    /\ \A i \in 1..(Len(L) - 1) :
                           ~Overlap(L[i], L[i + 1]) =>
                               ResultUnder(Swap(L, i, i + 1), sep) = ev.result
                    /\ \A i, j \in 1..Len(L) :
                           (/\ i < j
                            /\ RuleMatchesKey(L[i], KeyOf(ev.buffer))
                            /\ RuleMatchesKey(L[j], KeyOf(ev.buffer))
                            /\ \A k \in 1..(i - 1) : ~RuleMatchesKey(L[k], KeyOf(ev.buffer))) =>
                               /\ ev.result = RuleMeaning(L[i]).lang
                               /\ ResultUnder(Swap(L, i, j), sep) = RuleMeaning(L[j]).lang)

\* (work,#dev) under work/#dev/en_US, home/#dev/de_DE, #dev/pl_PL: exchanging
\* the first two rules keeps en_US, exchanging the first and the last, which
\* both match, gives pl_PL
C15_Witness ==
    LET L == <<Rule3(N_work, N_dev, T_en_US), Rule3(N_home, N_dev, T_de_DE), Rule2(N_dev, T_pl_PL)>>
    IN  /\ ev.kind = "find_language"
        /\ config.languages = JoinRules(L, <<",">>)
        /\ ev.buffer = [server |-> N_work, channel |-> N_dev]
        /\ ev.result = T_en_US
        /\ ResultUnder(Swap(L, 1, 2), <<",">>) = T_en_US
        /\ ResultUnder(Swap(L, 1, 3), <<",">>) = T_pl_PL


----------------------------------------------------------------------------
(* The dictionary adapter *)

\* C16: when the dictionary of some configured language cannot be
\* constructed, a redisplay of a buffer without state abandons the check: it
\* makes no check or suggest call, records no suggestion state and returns
\* the text unmodified
C16_FailClosed ==
    (/\ ev.kind = "redisplay"
     /\ ev.from = "NONE"
     /\ \E i \in 1..Len(languages) : languages[i] \notin InstalledLangs) =>
        /\ ev.calls = 0
        /\ NoState(ev.buf)
        /\ ev.out = input[ev.buf]


\* C17: when the check call of the backend raises during a redisplay, the
\* error is caught: it does not leave the handler, the word is not flagged,
\* no suggestion state is recorded and the text is returned unmodified
C17_FailOpen ==
    (ev.kind = "redisplay" /\ backend = "down" /\ ev.from # "CYCLING") =>
        /\ ~ev.raised
        /\ NoState(ev.buf)
        /\ ev.out = input[ev.buf]


\* the dictionary candidates of a language for the flagged word of a buffer
CandidatesOf(lang, b) == speller_suggest(lang, original_word[b])

\* C18: in every reachable state the suggestion list held for a buffer has at
\* most 5 entries, no entry twice, and every entry that is a candidate of an
\* earlier language of the set precedes every entry that only a later
\* language proposes
C18_SuggestionList ==
    \A b \in DOMAIN last_suggestions :
        LET list == last_suggestions[b]
        IN  /\ Len(list) <= MaxSuggestions
            /\ \A p, q \in 1..Len(list) : list[p] = list[q] => p = q
            /\ (b \in DOMAIN original_word) =>
                   \A p, q \in 1..Len(list) :
                       (/\ InSeq(list[p], CandidatesOf(languages[1], b))
                        /\ ~InSeq(list[q], CandidatesOf(languages[1], b))
                        /\ InSeq(list[q], CandidatesOf(languages[2], b))) => p < q


\* scheme://...: one or more letters, then "://"
HasUrlScheme(word) ==
    \E i \in 2..(Len(word) - 2) :
        /\ SubSeq(word, i, i + 2) = <<":", "/", "/">>
        /\ \A j \in 1..(i - 1) : ~IsSpace(word[j]) /\ ~IsDigit(word[j]) /\ word[j] \notin {":", "/", "@"}

\* local@domain with exactly one "@"
IsEmail(word) ==
    \E i \in 2..(Len(word) - 1) :
        /\ word[i] = "@"
        /\ \A j \in 1..Len(word) : j # i => word[j] # "@"

IsNumber(word) == Len(word) >= 1 /\ \A i \in 1..Len(word) : IsDigit(word[i])

\* the words that are not to be checked
Ineligible(word) ==
    \/ Len(word) < 2
    \/ StartsWith(word, <<"/">>)
    \/ HasUrlScheme(word)
    \/ IsEmail(word)
    \/ IsNumber(word)

\* C20: a redisplay with an ineligible word before the cursor (shorter than
\* 2, starting with "/", scheme://..., an e-mail address, a number) does not
\* flag it: the text is returned unmodified and the buffer has no suggestion
\* state, whatever the dictionaries answer for the word
C20_IneligibleNeverFlagged ==
    (/\ ev.kind = "redisplay"
     /\ input_pos[ev.buf] = Len(input[ev.buf])
     /\ input[ev.buf] \in PasteWords
     /\ Ineligible(input[ev.buf])) =>
        /\ ev.out = input[ev.buf]
        /\ NoState(ev.buf)


----------------------------------------------------------------------------
(* The personal word lists *)

\* the word list of a personal file: its non-blank lines after the header
WordList(file) == personal_words(file.lines)

NoDuplicates(list) == \A p, q \in 1..Len(list) : list[p] = list[q] => p = q

\* the file starts with the header line of its language
HasHeader(file, lang) ==
    file.exists /\ Len(file.lines) >= 1 /\ file.lines[1] = personal_header(lang)

----------------------------------------------------------------------------
(* Redisplay against recorded state *)

\* the word that a redisplay of buffer b locates before the cursor
Located(b) == find_word_at_cursor(input[b], input_pos[b])

\* a word is located in b and its span is not the recorded one
SpanMismatch(b) ==
    /\ b \in DOMAIN last_word_position
    /\ Located(b).word # <<>>
    /\ \/ Located(b).start # last_word_position[b][1]
       \/ Located(b).length # last_word_position[b][2]

\* C21: a redisplay that locates a word whose span differs from the recorded
\* one gives what a redisplay of the text gives from state NONE: when the
\* check of the located word yields no suggestions the buffer has no state and
\* the text is returned unmodified, otherwise the buffer is FLAGGED afresh
\* (active false, index -1) for the located word with the suggestions of that
\* word and the display is the flagged rendering of it
C21_MismatchIsFreshCheck ==
    [][\A b \in Buffers :
        (ev'.kind = "redisplay" /\ ev'.buf = b /\ SpanMismatch(b)) =>
            LET found == Located(b)
                checked == check_word(found.word, b, spellers)
                fresh == input_modifier_cb(b, input[b], pop_state(Cur, b))
            IN  /\ ev'.calls = checked.calls
                /\ ev'.out = fresh.out
                /\ Cur' = fresh.st
                /\ IF checked.suggestions = <<>>
                   THEN NoState(b)' /\ ev'.out = input[b]
                   ELSE /\ last_suggestions'[b] = checked.suggestions
                        /\ current_suggestion_index'[b] = -1
                        /\ suggestion_active'[b] = FALSE
                        /\ original_word'[b] = found.word
                        /\ last_word_position'[b] = <<found.start, found.length, found.word>>
                        /\ ev'.out = render_flagged(input[b], found.start, found.length,
                                                    found.word, checked.suggestions)
      ]_vars

\* a redisplay has found a cycling buffer with another word before the cursor
\* and has flagged that word afresh
C21_Witness ==
    /\ ev.kind = "redisplay" /\ ev.from = "CYCLING"
    /\ StateOf(Cur, ev.buf) = "FLAGGED"
    /\ last_word_position[ev.buf][3] = Located(ev.buf).word


\* the suggestions from the i-th on, separated by ", ", the one with cycle
\* index idx highlighted
RECURSIVE Listed(_, _, _)
Listed(list, i, idx) ==
    IF i > Len(list) THEN <<>>
    ELSE (IF i - 1 = idx THEN <<"<magenta>">> \o list[i] \o <<"<reset>">> ELSE list[i])
         \o (IF i < Len(list) THEN <<",", " ">> ELSE <<>>)
         \o Listed(list, i + 1, idx)

\* the display of a cycling buffer, from what is stored for it: the original
\* word in the flag colour at the recorded span, then the bracketed list
CyclingDisplay(b) ==
    LET span == last_word_position[b]
    IN  Take(input[b], span[1])
            \o <<"<red>">> \o original_word[b] \o <<"<reset>">>
            \o <<" ", "[">> \o Listed(last_suggestions[b], 1, current_suggestion_index[b]) \o <<"]">>
            \o Drop(input[b], span[1] + span[2])

\* the buffer is cycling and the word located before the cursor has the
\* recorded span
CyclingSpanHolds(b) ==
    /\ Active(b)
    /\ b \in DOMAIN last_word_position
    /\ Located(b).word # <<>>
    /\ Located(b).start = last_word_position[b][1]
    /\ Located(b).length = last_word_position[b][2]

\* C22: a redisplay of a cycling buffer whose located span equals the
\* recorded span makes no dictionary call, leaves the five maps and the
\* speller cache as they are, and returns the display built from the stored
\* suggestions, original word and index
C22_CyclingRedisplay ==
    [][\A b \in Buffers :
        (ev'.kind = "redisplay" /\ ev'.buf = b /\ CyclingSpanHolds(b)) =>
            /\ ev'.calls = 0
            /\ Maps' = Maps
            /\ spellers' = spellers
            /\ ev'.out = CyclingDisplay(b)
      ]_vars

\* a redisplay of a buffer cycling at its second suggestion
C22_Witness ==
    /\ ev.kind = "redisplay" /\ ev.from = "CYCLING" /\ ev.calls = 0
    /\ CyclingSpanHolds(ev.buf)
    /\ current_suggestion_index[ev.buf] = 1
    /\ ev.out = CyclingDisplay(ev.buf)


\* the word that the recorded state of b stands for: the chosen suggestion
\* while cycling, the flagged word before
RecordedWord(b) ==
    IF Active(b) /\ b \in DOMAIN current_suggestion_index /\ current_suggestion_index[b] >= 0
    THEN last_suggestions[b][current_suggestion_index[b] + 1]
    ELSE last_word_position[b][3]

\* the recorded state of b no longer fits the text and the cursor
StateInvalid(b) ==
    /\ b \in DOMAIN last_word_position
    /\ \/ Located(b).word = <<>>
       \/ SpanText(b) # RecordedWord(b)

\* C23: a redisplay that finds the recorded state of the buffer no longer
\* valid (no word before the cursor, or the recorded span does not hold the
\* recorded word) drops it: afterwards the buffer has no state and the text
\* was returned unmodified, or the word now before the cursor has been flagged
\* afresh; the state made for the earlier text does not survive
C23_SilentReset ==
    [][\A b \in Buffers :
        (ev'.kind = "redisplay" /\ ev'.buf = b /\ StateInvalid(b)) =>
            \/ NoState(b)' /\ ev'.out = input[b]
            \/ /\ Located(b).word # <<>>
               /\ last_word_position'[b] = <<Located(b).start, Located(b).length, Located(b).word>>
               /\ suggestion_active'[b] = FALSE
               /\ current_suggestion_index'[b] = -1
      ]_vars


----------------------------------------------------------------------------
(* Dictionary calls of one check *)

\* the positions of the configured tags whose dictionary accepts word
Accepting(word) ==
    {i \in 1..Len(languages) :
        languages[i] \in InstalledLangs /\ speller_check(languages[i], word)}

\* the check calls made up to and including the first accepting tag
ChecksUntilAccepted(word) ==
    LET first == CHOOSE i \in Accepting(word) : \A j \in Accepting(word) : i <= j
    IN  Cardinality({j \in 1..first : languages[j] \in InstalledLangs})

\* C24: when some tag accepts the word that a redisplay checks, the only
\* dictionary calls made for it are the check calls up to and including the
\* accepting tag: no suggest call on any tag, no check call after it
C24_SuggestOnlyWhenRejected ==
    (ev.kind = "redisplay" /\ ev.calls > 0 /\ Accepting(Located(ev.buf).word) # {}) =>
        ev.calls = ChecksUntilAccepted(Located(ev.buf).word)


\* every configured tag that has a dictionary rejects word and suggests nothing
RejectedWithoutSuggestions(word) ==
    /\ Len(word) >= 2
    /\ ~unchecked_pattern(word)
    /\ \A i \in 1..Len(languages) :
          languages[i] \in InstalledLangs =>
              /\ ~speller_check(languages[i], word)
              /\ speller_suggest(languages[i], word) = <<>>

\* no nickname of the buffer completes word
NoNickMatches(b, word) ==
    localvar_type(b) \in {"channel", "private"} => get_matching_nicks(b, word) = <<>>

\* the redisplay was not the display of a cycle in progress, which shows the
\* recorded list whatever the word is
CheckedAfresh == ev.from # "CYCLING" \/ ev.calls > 0

----------------------------------------------------------------------------
(* The five maps as one record per buffer *)

\* C26: the five maps have the same buffers as keys; every stored suggestion
\* list is non-empty; the word of the span record is the entry of the
\* original-word map
C26_AllOrNothing ==
    /\ DOMAIN current_suggestion_index = DOMAIN last_suggestions
    /\ DOMAIN last_word_position = DOMAIN last_suggestions
    /\ DOMAIN original_word = DOMAIN last_suggestions
    /\ DOMAIN suggestion_active = DOMAIN last_suggestions
    /\ \A key \in DOMAIN last_suggestions :
          /\ last_suggestions[key] # <<>>
          /\ last_word_position[key][3] = original_word[key]

\* an advance has rewritten the span record for a suggestion of another
\* length than the word, and the record still carries the word
C26_Witness ==
    \E b \in Buffers :
        /\ AfterAdvance(b)
        /\ Active(b)
        /\ last_word_position[b][2] # Len(original_word[b])
        /\ last_word_position[b][3] = original_word[b]
        /\ DOMAIN last_word_position = {b}


----------------------------------------------------------------------------
(* Commit of a word that is followed by other text *)

\* the end of the recorded span of b
SpanEnd(b) == last_word_position[b][1] + last_word_position[b][2]

\* the text behind the recorded span of b
Behind(b) == Drop(input[b], SpanEnd(b))

\* C27: a commit on an active buffer puts the separator at the end of the
\* whole input text and the cursor behind it, wherever the cursor and the
\* cycled word are: the text up to the end of the word and the text behind
\* the word stay as they were, with nothing put between them
C27_CommitAppendsAtEnd ==
    [][\A b \in Buffers :
        (ev'.kind = "space" /\ ev'.buf = b /\ Active(b) /\ b \in DOMAIN last_word_position) =>
            /\ input'[b] = Take(input[b], SpanEnd(b)) \o Behind(b) \o <<" ">>
            /\ Len(input'[b]) = Len(input[b]) + 1
            /\ input_pos'[b] = Len(input'[b])
      ]_vars

\* the word 'ba' of 'bab' was replaced by 'aa' with the cursor left between
\* the suggestion and the 'b' behind it; the commit put the separator behind
\* that 'b' and the cursor at the end
C27_Witness ==
    /\ ev.kind = "space" /\ ev.from = "CYCLING" /\ ev.rc = WEECHAT_RC_OK_EAT
    /\ input[ev.buf] = W_aa \o <<"b", " ">>
    /\ input_pos[ev.buf] = 4

====
